---- MODULE Spec2Model ----
(***************************************************************************)
(* Model of server.py: a static file server for the directory "dist" on    *)
(* port 3000, built from socketserver.TCPServer and a subclass of          *)
(* http.server.SimpleHTTPRequestHandler whose end_headers adds the two     *)
(* cross-origin isolation headers, with ".wasm" registered in mimetypes.   *)
(*                                                                         *)
(* The behaviour of the base classes the script instantiates (CPython 3.11 *)
(* http.server, socketserver, mimetypes, posixpath) is modelled as far as  *)
(* the script's observable behaviour depends on it.                        *)
(*                                                                         *)
(* Text is modelled as sequences of tokens: a file name is a sequence in   *)
(* which "." is the dot character and every other token is a run of        *)
(* characters holding neither a dot nor a slash; a path is a sequence of   *)
(* names.                                                                  *)
(***************************************************************************)
EXTENDS Integers, Sequences, FiniteSets, TLC

\* ------------------------------------------------------------- bounds
\* Longest request path, in segments.
MaxPathLen == 2
\* Number of client connections that may be open at once.
MaxClients == 2

\* ---------------------------------------------------- program constants
PORT == 3000
\* socketserver.TCPServer.request_queue_size, the listen() backlog.
request_queue_size == 5

\* ------------------------------------------------------ names and files
Dot == "."
ParName == <<Dot, Dot>>
XWasm == <<"x", Dot, "wasm">>
DotWasm == <<Dot, "wasm">>
Secret == <<"secret">>
ServerPy == <<"server", Dot, "py">>
DistName == <<"dist">>
ProjName == <<"proj">>
WasmExt == <<Dot, "wasm">>
HtmlExt == <<Dot, "html">>

\* The segments a request path is built from.
Segments == {ParName, XWasm, DotWasm, Secret, ServerPy}

\* The directory the script is started in, and the served directory in it.
StartDir == <<ProjName>>
DistDir == <<ProjName, DistName>>

\* The regular files on disk (absolute path -> bytes) when dist exists.
\* proj/secret and the script itself lie outside the served directory; a
\* file named secret exists inside it too, server.py does not.
OutsideSecretBytes == <<7, 7, 7>>
FilesInDist ==
    (<<ProjName, DistName, XWasm>> :> <<2, 3>>)
    @@ (<<ProjName, DistName, DotWasm>> :> <<4>>)
    @@ (<<ProjName, DistName, Secret>> :> <<1, 1>>)
FilesOutside ==
    (<<ProjName, Secret>> :> OutsideSecretBytes)
    @@ (<<ProjName, ServerPy>> :> <<8, 8, 8, 8>>)

Files(distThere) == IF distThere THEN FilesInDist @@ FilesOutside ELSE FilesOutside
Dirs(distThere) == IF distThere THEN {<<>>, StartDir, DistDir} ELSE {<<>>, StartDir}

isfile(fs, p) == p \in DOMAIN fs.files
isdir(fs, p) == p \in fs.dirs

\* ------------------------------------------------------------ posixpath
IsPrefix(a, b) == Len(a) <= Len(b) /\ SubSeq(b, 1, Len(a)) = a

RECURSIVE rfindDot(_, _)
\* str.rfind('.') over the tokens of a name; 0 when there is none.
rfindDot(n, i) == IF i = 0 THEN 0 ELSE IF n[i] = Dot THEN i ELSE rfindDot(n, i - 1)

\* genericpath._splitext on the last component: the extension starts at the
\* last dot, unless only dots precede it.
splitext(n) ==
    LET dotIndex == rfindDot(n, Len(n))
    IN IF dotIndex > 0 /\ (\E j \in 1..(dotIndex - 1) : n[j] # Dot)
       THEN <<SubSeq(n, 1, dotIndex - 1), SubSeq(n, dotIndex, Len(n))>>
       ELSE <<n, <<>>>>

RECURSIVE normcomps(_, _)
\* The component loop of posixpath.normpath for a path with one leading slash.
normcomps(comps, acc) ==
    IF comps = <<>> THEN acc
    ELSE LET c == Head(comps)
         IN IF c = <<>> \/ c = <<Dot>> THEN normcomps(Tail(comps), acc)
            ELSE IF c # ParName THEN normcomps(Tail(comps), Append(acc, c))
            ELSE IF acc # <<>> /\ acc[Len(acc)] = ParName
                 THEN normcomps(Tail(comps), Append(acc, c))
            ELSE IF acc # <<>>
                 THEN normcomps(Tail(comps), SubSeq(acc, 1, Len(acc) - 1))
            ELSE normcomps(Tail(comps), acc)

normpath(path) == normcomps(path, <<>>)

\* What the operating system opens for base/seg1/seg2/...: ".." is the parent.
RECURSIVE oswalk(_, _)
oswalk(base, segs) ==
    IF segs = <<>> THEN base
    ELSE IF Head(segs) = ParName
         THEN oswalk(IF base = <<>> THEN <<>> ELSE SubSeq(base, 1, Len(base) - 1), Tail(segs))
         ELSE oswalk(Append(base, Head(segs)), Tail(segs))

\* ------------------------------------------------------------ mimetypes
\* The platform's default table: ".html" and, per platform, ".wasm" absent,
\* right, or mapped to another type.
WasmDefaults == {"absent", "application/wasm", "text/plain"}
DefaultTypes(wasmDefault) ==
    IF wasmDefault = "absent"
    THEN (HtmlExt :> "text/html")
    ELSE (HtmlExt :> "text/html") @@ (WasmExt :> wasmDefault)

\* Mutant: an extension the table already has keeps its type.
add_type_KeepExisting(tbl, type, ext) ==
    [e \in (DOMAIN tbl) \cup {ext} |-> IF e \in DOMAIN tbl THEN tbl[e] ELSE type]

\* mimetypes.add_type(type, ext): types_map[ext] = type.
add_type(tbl, type, ext) ==
    [e \in (DOMAIN tbl) \cup {ext} |-> IF e = ext THEN type ELSE tbl[e]]

\* mimetypes.guess_type(path)[0], "" standing for None: the table entry of
\* the extension of the path's last component.
mimetypes_guess_type(tbl, p) ==
    LET ext == IF p = <<>> THEN <<>> ELSE splitext(p[Len(p)])[2]
    IN IF ext \in DOMAIN tbl THEN tbl[ext] ELSE ""

\* SimpleHTTPRequestHandler.guess_type: extensions_map holds only the
\* compression suffixes, then mimetypes, then the generic binary type.
guess_type(tbl, p) ==
    LET guess == mimetypes_guess_type(tbl, p)
    IN IF guess # "" THEN guess ELSE "application/octet-stream"

\* -------------------------------------------------------------- requests
Commands == {"GET", "HEAD", "POST", "DELETE"}
\* The third word of the request line; "" when the line has two words.
VersionWords == {"", "HTTP/1.0", "FOO/1.0"}

RECURSIVE PathsOfLen(_)
PathsOfLen(n) ==
    IF n = 0 THEN {<<>>}
    ELSE {Append(p, s) : p \in PathsOfLen(n - 1), s \in Segments}

RECURSIVE PathsUpTo(_)
PathsUpTo(n) == IF n = 0 THEN PathsOfLen(0) ELSE PathsOfLen(n) \cup PathsUpTo(n - 1)

\* A request: its method, the segments of its path, whether the path ends
\* in a slash ("/" alone always does), the version word, and whether it
\* carries an If-Modified-Since date not before the file's modification
\* (and no If-None-Match). HTTP/1.1 is handled like HTTP/1.0: the handler's
\* protocol_version is HTTP/1.0, so every connection carries one request.
Requests ==
    {rq \in [command : Commands, path : PathsUpTo(MaxPathLen), slash : BOOLEAN,
              version : VersionWords, ims : BOOLEAN] :
        rq.path = <<>> => rq.slash}

\* str(n) for the sizes that occur.
Str(n) == <<"0", "1", "2", "3", "4", "5", "6", "7", "8", "9">>[n + 1]

\* ------------------------------------------------------------- responses
NoBody == [kind |-> "none", data |-> <<>>]
FileBody(bytes) == [kind |-> "file", data |-> bytes]
ErrorPage(code) == [kind |-> "errorpage", data |-> <<code>>]
Listing == [kind |-> "listing", data |-> <<>>]

COEP == <<"Cross-Origin-Embedder-Policy", "require-corp">>
COOP == <<"Cross-Origin-Opener-Policy", "same-origin">>

\* The handler before it has written anything; buf is _headers_buffer.
NewHandler(version, command) ==
    [version |-> version, command |-> command, code |-> 0, line |-> FALSE,
     buf |-> <<>>, headers |-> <<>>, body |-> NoBody]

\* BaseHTTPRequestHandler.send_header: nothing for an HTTP/0.9 request.
send_header(h, k, v) ==
    IF h.version # "HTTP/0.9" THEN [h EXCEPT !.buf = Append(@, <<k, v>>)] ELSE h

\* BaseHTTPRequestHandler.send_response: the status line (none for
\* HTTP/0.9), then the Server and Date headers.
send_response(h, code) ==
    LET h1 == [h EXCEPT !.code = code, !.line = (h.version # "HTTP/0.9")]
    IN send_header(send_header(h1, "Server", "SimpleHTTP"), "Date", "now")

\* BaseHTTPRequestHandler.end_headers: flush the buffer to the socket.
base_end_headers(h) ==
    IF h.version # "HTTP/0.9"
    THEN [h EXCEPT !.headers = h.headers \o h.buf, !.buf = <<>>]
    ELSE h

\* Mutant: the override forgets the two headers.
end_headers_NoIsolation(h) == base_end_headers(h)

\* CustomHTTPRequestHandler.end_headers.
end_headers(h) ==
    base_end_headers(send_header(send_header(h, COEP[1], COEP[2]), COOP[1], COOP[2]))

\* BaseHTTPRequestHandler.send_error; the page's text is not modelled, so
\* neither is the number in its Content-Length.
send_error(h, code) ==
    LET h1 == send_header(send_response(h, code), "Connection", "close")
        page == code >= 200 /\ code \notin {204, 205, 304}
        h2 == IF page
              THEN send_header(send_header(h1, "Content-Type", "text/html;charset=utf-8"),
                               "Content-Length", "len(body)")
              ELSE h1
        h3 == end_headers(h2)
    IN IF h.command # "HEAD" /\ page THEN [h3 EXCEPT !.body = ErrorPage(code)] ELSE h3

\* ------------------------------------------------- SimpleHTTPRequestHandler
IndexNames == <<(<<"index", Dot, "html">>), (<<"index", Dot, "htm">>)>>

\* Mutant: the request path is joined to the directory as it stands.
translate_path_Raw(directory, rq) == oswalk(directory, rq.path)

\* translate_path: normalise, drop what is not a simple name, and join the
\* rest to the directory the handler was created in.
translate_path(directory, rq) ==
    LET words == SelectSeq(normpath(rq.path),
                           LAMBDA w : w # <<>> /\ w # <<Dot>> /\ w # ParName)
    IN directory \o words

\* list_directory: the listing page with status 200.
list_directory(h) ==
    LET h1 == send_header(send_header(send_response(h, 200),
                  "Content-type", "text/html; charset=utf-8"),
                  "Content-Length", "len(body)")
    IN [h |-> end_headers(h1), f |-> Listing]

\* send_head: the status and headers of a GET or HEAD, and the file to copy.
send_head(fs, directory, tbl, h, rq) ==
    LET tp == translate_path(directory, rq)
        dir == isdir(fs, tp)
        withIndex == {i \in 1..Len(IndexNames) : isfile(fs, Append(tp, IndexNames[i]))}
        first == CHOOSE i \in withIndex : \A j \in withIndex : i <= j
        path == IF dir /\ withIndex # {} THEN Append(tp, IndexNames[first]) ELSE tp
        slashed == rq.slash /\ ~(dir /\ withIndex # {})
        ctype == guess_type(tbl, path)
    IN IF dir /\ ~rq.slash
       THEN [h |-> end_headers(send_header(send_header(send_response(h, 301),
                        "Location", "path/"), "Content-Length", "0")),
             f |-> NoBody]
       ELSE IF dir /\ withIndex = {} THEN list_directory(h)
       ELSE IF slashed \/ ~isfile(fs, path)
       THEN [h |-> send_error(h, 404), f |-> NoBody]
       ELSE IF rq.ims
       THEN [h |-> end_headers(send_response(h, 304)), f |-> NoBody]
       ELSE [h |-> end_headers(send_header(send_header(send_header(send_response(h, 200),
                        "Content-type", ctype),
                        "Content-Length", Str(Len(fs.files[path]))),
                        "Last-Modified", "mtime")),
             f |-> FileBody(fs.files[path])]

\* Mutant: the file is never copied to the socket.
do_GET_HeadersOnly(fs, directory, tbl, h, rq) == send_head(fs, directory, tbl, h, rq).h

\* do_GET: send_head, then copy the file to the socket.
do_GET(fs, directory, tbl, h, rq) ==
    LET r == send_head(fs, directory, tbl, h, rq)
    IN IF r.f # NoBody THEN [r.h EXCEPT !.body = r.f] ELSE r.h

\* do_HEAD: send_head only.
do_HEAD(fs, directory, tbl, h, rq) == send_head(fs, directory, tbl, h, rq).h

\* parse_request: the protocol version the response is written for, and
\* the error response when the request line is refused. The command is
\* still unset while parse_request reports an error.
parse_request(rq) ==
    IF rq.version = "FOO/1.0"
    THEN [ok |-> FALSE, h |-> send_error(NewHandler("HTTP/0.9", "None"), 400)]
    ELSE IF rq.version = "" /\ rq.command # "GET"
    THEN [ok |-> FALSE, h |-> send_error(NewHandler("HTTP/0.9", "None"), 400)]
    ELSE [ok |-> TRUE,
          h |-> NewHandler(IF rq.version = "" THEN "HTTP/0.9" ELSE rq.version, rq.command)]

\* Mutant: every method but HEAD is served like GET.
handle_one_request_AnyMethod(fs, directory, tbl, rq) ==
    LET p == parse_request(rq)
    IN IF ~p.ok THEN p.h
       ELSE IF rq.command = "HEAD" THEN send_head(fs, directory, tbl, p.h, rq).h
       ELSE LET r == send_head(fs, directory, tbl, p.h, rq)
            IN IF r.f # NoBody THEN [r.h EXCEPT !.body = r.f] ELSE r.h

\* handle_one_request: parse, dispatch to do_<command>, 501 when the
\* handler has no such method.
handle_one_request(fs, directory, tbl, rq) ==
    LET p == parse_request(rq)
    IN IF ~p.ok THEN p.h
       ELSE IF rq.command = "GET" THEN do_GET(fs, directory, tbl, p.h, rq)
       ELSE IF rq.command = "HEAD" THEN do_HEAD(fs, directory, tbl, p.h, rq)
       ELSE send_error(p.h, 501)

\* ------------------------------------------------------------------ state
VARIABLES
    pc,          \* the line of server.py the process is at, "handling", "exited"
    exitStatus,  \* -1 while the process runs, then its exit status
    stdout,      \* the messages printed, in order
    stderr,      \* the diagnostics written
    sock,        \* the listening socket: "none", "listening", "closed"
    portOwner,   \* who has port 3000 bound: "free", "self", "other"
    cwd,         \* the working directory
    types,       \* the mimetypes table
    fs,          \* the disk: [files, dirs]
    backlog,     \* connections completed by the kernel, not yet accepted
    current,     \* the connection being handled, 0 for none
    last         \* the request of the latest connection accepted and its
                 \* response, once answered

vars == <<pc, exitStatus, stdout, stderr, sock, portOwner, cwd, types, fs,
          backlog, current, last>>

Clients == 1..MaxClients

BannerLines == <<"Serving Sudokuist at http://localhost:3000",
                 "Test page at http://localhost:3000/test.html",
                 "Press Ctrl+C to stop">>
StoppedLine == "Server stopped"

\* The interpreter has imported the modules; line 12 is next. The disk may
\* lack dist, the port may be held by another process (another instance of
\* this server among them), and the platform's table may say anything
\* about ".wasm".
Init ==
    /\ pc = "L12"
    /\ exitStatus = -1
    /\ stdout = <<>>
    /\ stderr = {}
    /\ sock = "none"
    /\ portOwner \in {"free", "other"}
    /\ cwd = StartDir
    /\ \E d \in WasmDefaults : types = DefaultTypes(d)
    /\ \E distThere \in BOOLEAN : fs = [files |-> Files(distThere), dirs |-> Dirs(distThere)]
    /\ backlog = <<>>
    /\ current = 0
    /\ last = <<>>

\* ---------------------------------------------------------------- actions
\* Line 12: mimetypes.add_type('application/wasm', '.wasm').
RegisterWasm ==
    /\ pc = "L12"
    /\ types' = add_type(types, "application/wasm", WasmExt)
    /\ pc' = "L22"
    /\ UNCHANGED <<exitStatus, stdout, stderr, sock, portOwner, cwd, fs, backlog, current, last>>

\* Mutant: the working directory is left where the script was started.
ChangeDir_Skipped ==
    /\ pc = "L22"
    /\ pc' = "L24"
    /\ UNCHANGED <<exitStatus, stdout, stderr, sock, portOwner, cwd, types, fs, backlog, current, last>>

\* Line 22: os.chdir('dist'); FileNotFoundError goes uncaught.
ChangeDir ==
    /\ pc = "L22"
    /\ IF isdir(fs, cwd \o <<DistName>>)
       THEN /\ cwd' = cwd \o <<DistName>>
            /\ pc' = "L24"
            /\ UNCHANGED <<exitStatus, stderr>>
       ELSE /\ stderr' = stderr \cup {"FileNotFoundError"}
            /\ exitStatus' = 1
            /\ pc' = "exited"
            /\ UNCHANGED cwd
    /\ UNCHANGED <<stdout, sock, portOwner, types, fs, backlog, current, last>>

\* Mutant: the port is shared with whoever holds it (reuse of the port).
Bind_SharedPort ==
    /\ pc = "L24"
    /\ portOwner' = "self"
    /\ sock' = "listening"
    /\ pc' = "L25"
    /\ UNCHANGED <<exitStatus, stdout, stderr, cwd, types, fs, backlog, current, last>>

\* Line 24: TCPServer(("", PORT), ...) binds and listens; OSError (address
\* in use; allow_reuse_address is off) goes uncaught.
Bind ==
    /\ pc = "L24"
    /\ IF portOwner = "free"
       THEN /\ portOwner' = "self"
            /\ sock' = "listening"
            /\ pc' = "L25"
            /\ UNCHANGED <<exitStatus, stderr>>
       ELSE /\ stderr' = stderr \cup {"OSError"}
            /\ exitStatus' = 1
            /\ pc' = "exited"
            /\ UNCHANGED <<portOwner, sock>>
    /\ UNCHANGED <<stdout, cwd, types, fs, backlog, current, last>>

\* Lines 25-27: the banner.
Banner ==
    /\ pc = "L25"
    /\ stdout' = stdout \o BannerLines
    /\ pc' = "L29"
    /\ UNCHANGED <<exitStatus, stderr, sock, portOwner, cwd, types, fs, backlog, current, last>>

\* A client connects; the kernel queues the connection while the socket
\* listens, whatever the process is doing.
Connect(c) ==
    /\ sock = "listening"
    /\ c # current
    /\ \A i \in 1..Len(backlog) : backlog[i] # c
    /\ Len(backlog) < request_queue_size
    /\ backlog' = Append(backlog, c)
    /\ UNCHANGED <<pc, exitStatus, stdout, stderr, sock, portOwner, cwd, types, fs, current, last>>

\* Mutant: connections are accepted while one is being handled (a
\* threading server).
Accept_WhileHandling ==
    /\ pc \in {"L29", "handling"}
    /\ backlog # <<>>
    /\ current' = Head(backlog)
    /\ backlog' = Tail(backlog)
    /\ pc' = "handling"
    /\ last' = <<>>
    /\ UNCHANGED <<exitStatus, stdout, stderr, sock, portOwner, cwd, types, fs>>

\* Line 29, serve_forever: the selector reports the socket readable and
\* _handle_request_noblock accepts one connection.
Accept ==
    /\ pc = "L29"
    /\ backlog # <<>>
    /\ current' = Head(backlog)
    /\ backlog' = Tail(backlog)
    /\ pc' = "handling"
    /\ last' = <<>>
    /\ UNCHANGED <<exitStatus, stdout, stderr, sock, portOwner, cwd, types, fs>>

\* The handler object: directory = os.getcwd(), one request read and
\* answered, then the connection is shut down and serve_forever loops.
HandleRequest ==
    /\ pc = "handling"
    /\ \E rq \in Requests :
          last' = <<[client |-> current, rq |-> rq,
                    resp |-> handle_one_request(fs, cwd, types, rq)]>>
    /\ current' = 0
    /\ pc' = "L29"
    /\ UNCHANGED <<exitStatus, stdout, stderr, sock, portOwner, cwd, types, fs, backlog>>

\* Mutant: an exception in the handler escapes serve_forever.
HandlerRaises_Fatal ==
    /\ pc = "handling"
    /\ stderr' = stderr \cup {"Exception occurred during processing of request"}
    /\ current' = 0
    /\ pc' = "exited"
    /\ exitStatus' = 1
    /\ sock' = "closed"
    /\ portOwner' = "free"
    /\ backlog' = <<>>
    /\ UNCHANGED <<stdout, cwd, types, fs, last>>

\* The client resets the connection or sends nothing usable: the handler
\* raises, handle_error reports it, the connection is shut down.
HandlerRaises ==
    /\ pc = "handling"
    /\ stderr' = stderr \cup {"Exception occurred during processing of request"}
    /\ current' = 0
    /\ pc' = "L29"
    /\ UNCHANGED <<exitStatus, stdout, sock, portOwner, cwd, types, fs, backlog, last>>

\* server_close on leaving the with block: the socket is closed, the port
\* is free again and the queued connections are reset.
Closed(s) == IF s = "listening" THEN "closed" ELSE s
Released(o) == IF o = "self" THEN "free" ELSE o

\* KeyboardInterrupt raised at the line the process is at. Only line 29 is
\* inside the try of lines 28-31; elsewhere it goes uncaught, through the
\* with block when the server object exists.
Interrupt ==
    /\ pc # "exited"
    /\ IF pc \in {"L29", "handling"}
       THEN /\ pc' = "L31"
            /\ current' = 0
            /\ UNCHANGED <<exitStatus, stderr, sock, portOwner, backlog>>
       ELSE /\ pc' = "exited"
            /\ exitStatus' = 130
            /\ stderr' = stderr \cup {"KeyboardInterrupt"}
            /\ sock' = Closed(sock)
            /\ portOwner' = Released(portOwner)
            /\ backlog' = <<>>
            /\ UNCHANGED current
    /\ UNCHANGED <<stdout, cwd, types, fs, last>>

\* Line 31 and the end of the with block and of the script.
Stop ==
    /\ pc = "L31"
    /\ stdout' = Append(stdout, StoppedLine)
    /\ sock' = Closed(sock)
    /\ portOwner' = Released(portOwner)
    /\ backlog' = <<>>
    /\ exitStatus' = 0
    /\ pc' = "exited"
    /\ UNCHANGED <<stderr, cwd, types, fs, current, last>>

\* Another process (or another instance of this server) takes the port
\* while it is free, or gives it up.
OtherBinds ==
    /\ portOwner = "free"
    /\ portOwner' = "other"
    /\ UNCHANGED <<pc, exitStatus, stdout, stderr, sock, cwd, types, fs, backlog, current, last>>

OtherReleases ==
    /\ portOwner = "other"
    /\ portOwner' = "free"
    /\ UNCHANGED <<pc, exitStatus, stdout, stderr, sock, cwd, types, fs, backlog, current, last>>

Next ==
    \/ RegisterWasm
    \/ ChangeDir
    \/ Bind
    \/ Banner
    \/ \E c \in Clients : Connect(c)
    \/ Accept
    \/ HandleRequest
    \/ HandlerRaises
    \/ Interrupt
    \/ Stop
    \/ OtherBinds
    \/ OtherReleases

Spec == Init /\ [][Next]_vars

\* ------------------------------------------------------------ vocabulary
Answered == last # <<>>
Rq == last[1].rq
Resp == last[1].resp

\* The values a response gives for header k, in order.
HeaderValues(resp, k) ==
    LET hs == SelectSeq(resp.headers, LAMBDA kv : kv[1] = k)
    IN [i \in 1..Len(hs) |-> hs[i][2]]

HasIsolationHeaders(resp) ==
    /\ HeaderValues(resp, COEP[1]) = <<COEP[2]>>
    /\ HeaderValues(resp, COOP[1]) = <<COOP[2]>>

\* The request path, taken literally from the served directory, leaves it.
Escapes(path) == ~IsPrefix(cwd, oswalk(cwd, path))

HasParent(path) == \E i \in 1..Len(path) : path[i] = ParName

UnderRoot(p) == IsPrefix(DistDir, p) /\ p # DistDir
OutsideFiles == {p \in DOMAIN fs.files : ~UnderRoot(p)}
InsideFiles == {p \in DOMAIN fs.files : UnderRoot(p)}

\* The request names the regular file f under the root by f's own path.
NamesFile(rq, f) == f \in InsideFiles /\ DistDir \o rq.path = f /\ ~rq.slash

EndsInWasm(n) == Len(n) >= Len(WasmExt) /\ SubSeq(n, Len(n) - Len(WasmExt) + 1, Len(n)) = WasmExt

\* Something other than dots precedes the name's final ".wasm".
HasStem(n) == \E j \in 1..(Len(n) - Len(WasmExt)) : n[j] # Dot

Listening == sock = "listening"

\* The request line carries a valid HTTP/1.x version: the transport the
\* server is specified for.
Http1 == Rq.version = "HTTP/1.0"

\* ---------------------------------------------------------------- claims
\* C1 as stated: every response the server sends, for any request and any
\* status, carries both cross-origin headers with exactly their values.
C1_EveryResponseHasHeaders == Answered => HasIsolationHeaders(Resp)

\* C1 amended: every response written for a request line with a valid
\* HTTP/1.x version, whatever its status, carries each of the two headers
\* exactly once with its exact value; a response to a two-word (HTTP/0.9)
\* request line or to a request line refused for its version is the bare
\* body, with no status line and no header at all.
C1_HeadersOnEveryVersionedResponse ==
    Answered =>
        IF Http1
        THEN Resp.line /\ HasIsolationHeaders(Resp)
        ELSE ~Resp.line /\ Resp.headers = <<>>

C1_Witness ==
    /\ Answered
    /\ Http1
    /\ Resp.code = 404
    /\ HasIsolationHeaders(Resp)

C3_WasmContentType ==
    \A f \in InsideFiles :
        (Answered /\ Http1 /\ NamesFile(Rq, f) /\ EndsInWasm(f[Len(f)])
                  /\ Resp.code = 200) =>
            HeaderValues(Resp, "Content-type") = <<"application/wasm">>

\* C3 amended: a request with a valid HTTP/1.x request line answered 200
\* for an existing file whose name is a stem (something other than dots)
\* followed by .wasm carries Content-type application/wasm, whatever the
\* platform's default table held for .wasm; a file named just ".wasm" has
\* no extension and is served as application/octet-stream.
C3_WasmExtensionContentType ==
    \A f \in InsideFiles :
        (Answered /\ Http1 /\ NamesFile(Rq, f) /\ EndsInWasm(f[Len(f)])
                  /\ Resp.code = 200) =>
            HeaderValues(Resp, "Content-type") =
                <<IF HasStem(f[Len(f)])
                  THEN "application/wasm" ELSE "application/octet-stream">>

C3_Witness ==
    /\ Answered
    /\ NamesFile(Rq, <<ProjName, DistName, XWasm>>)
    /\ Http1
    /\ Resp.code = 200
    /\ HeaderValues(Resp, "Content-type") = <<"application/wasm">>

\* C4 as stated: for every existing regular file f under the root, an
\* HTTP/1.x GET for f's path returns status 200, a body identical to f's
\* contents and a Content-Length equal to f's size.
C4_FileServedWhole ==
    \A f \in InsideFiles :
        (Answered /\ Http1 /\ NamesFile(Rq, f) /\ Rq.command = "GET") =>
            /\ Resp.code = 200
            /\ Resp.body = FileBody(fs.files[f])
            /\ HeaderValues(Resp, "Content-Length") = <<Str(Len(fs.files[f]))>>

\* C4 amended: for every existing (readable) regular file f under the
\* root, an HTTP/1.x GET for f's path that carries no If-Modified-Since
\* date at or after f's modification time returns status 200, a body
\* identical to f's contents and a Content-Length equal to f's size; with
\* such a date the answer is 304 with no body and no Content-Length.
C4_PlainGetServedWhole ==
    \A f \in InsideFiles :
        (Answered /\ Http1 /\ NamesFile(Rq, f) /\ Rq.command = "GET") =>
            IF Rq.ims
            THEN /\ Resp.code = 304
                 /\ Resp.body = NoBody
                 /\ HeaderValues(Resp, "Content-Length") = <<>>
            ELSE
            /\ Resp.code = 200
            /\ Resp.body = FileBody(fs.files[f])
            /\ HeaderValues(Resp, "Content-Length") = <<Str(Len(fs.files[f]))>>

C4_Witness ==
    /\ Answered
    /\ NamesFile(Rq, <<ProjName, DistName, Secret>>)
    /\ Rq.command = "GET"
    /\ Http1
    /\ ~Rq.ims
    /\ Resp.body = FileBody(<<1, 1>>)
    /\ HeaderValues(Resp, "Content-Length") = <<"2">>

Nonexistent(rq) ==
    LET p == translate_path(cwd, rq)
    IN ~isdir(fs, p) /\ (~isfile(fs, p) \/ rq.slash)
Traversal(rq) == HasParent(rq.path) /\ Escapes(rq.path)
Disallowed(rq) == rq.command \notin {"GET", "HEAD"}

\* The connection being handled is finished by the handler, not by an
\* interrupt.
RequestEnds == pc = "handling" /\ pc' = "L29"
RequestAnswered == RequestEnds /\ last' # <<>>

C7_StartupFailureIsFatal ==
    [][/\ ((\/ pc = "L22" /\ ~isdir(fs, cwd \o <<DistName>>)
            \/ pc = "L24" /\ portOwner # "free") /\ pc' # pc) =>
              /\ pc' = "exited"
              /\ exitStatus' > 0
              /\ stderr' # {}
              /\ sock' = "none"
              /\ stdout' = <<>>
              /\ backlog' = <<>> /\ current' = 0 /\ last' = <<>>
       /\ pc = "exited" =>
              /\ pc' = "exited"
              /\ UNCHANGED <<exitStatus, stdout, stderr, sock, backlog, current, last>>
       /\ sock = "none" => stdout' = <<>> /\ backlog' = <<>> /\ current' = 0]_vars

C7_Witness ==
    /\ pc = "exited"
    /\ exitStatus = 1
    /\ stderr = {"OSError"}
    /\ cwd = DistDir
    /\ portOwner = "other"
    /\ sock = "none"

\* C8 as stated: an interrupt arriving at any moment after the listening
\* socket was bound ends in Stopped gracefully: the shutdown message is
\* printed, the socket is closed and the exit status is success. (The
\* socket is closed only by the end of the process.)
C8_InterruptAlwaysGraceful ==
    sock = "closed" =>
        /\ pc = "exited"
        /\ exitStatus = 0
        /\ stdout = BannerLines \o <<StoppedLine>>

\* C9: at most one request is handled at a time: a connection is accepted
\* only when none is being handled, only the connection being handled is
\* answered, and while it is neither answered nor dropped (a stalled
\* client) the connections behind it stay queued in their order.
C9_OneRequestAtATime ==
    [][/\ (current' # current /\ current' # 0) =>
              /\ current = 0
              /\ pc = "L29"
              /\ backlog # <<>> /\ current' = Head(backlog) /\ backlog' = Tail(backlog)
       /\ (last' # last /\ last' # <<>>) =>
              /\ current # 0
              /\ last'[1].client = current
              /\ current' = 0
       /\ (current # 0 /\ current' = current /\ Listening') =>
              /\ last' = last
              /\ IsPrefix(backlog, backlog')]_vars

\* The second client is queued while the first is being handled.
C9_Witness ==
    /\ pc = "handling"
    /\ current = 1
    /\ backlog = <<2>>
    /\ ~ENABLED Accept

\* C10: while the socket listens, the working directory is dist and the
\* table maps .wasm to application/wasm, and neither changes from the
\* moment the socket is bound.
C10_ConfiguredBeforeListening ==
    [][/\ sock' # "none" =>
              /\ cwd' = DistDir
              /\ WasmExt \in DOMAIN types' /\ types'[WasmExt] = "application/wasm"
       /\ sock # "none" => cwd' = cwd /\ types' = types]_vars

C10_Witness ==
    /\ Listening
    /\ pc = "handling"
    /\ cwd = DistDir
    /\ types[WasmExt] = "application/wasm"
    /\ "text/plain" \notin {types[e] : e \in DOMAIN types}

====
